---- MODULE Spec2Model ----
(***************************************************************************)
(* A model of shared/run_diff.go of wpt.fyi: the diff engine               *)
(* GetResultsDiff, its helper anyPathMatches, the rename resolver          *)
(* getDiffRenames and the assembly GetRunsDiff.                            *)
(*                                                                         *)
(* A Go string is a sequence of one-character strings.  A Go map is a      *)
(* function; `range` over a map visits its keys in an order the runtime    *)
(* chooses, so each loop iteration picks any key not visited yet.  A nil   *)
(* map or a nil mapset.Set is a record whose field nil is TRUE.            *)
(***************************************************************************)
EXTENDS Integers, Sequences, FiniteSets

VARIABLES
    before,     \* GetResultsDiff's before: test path -> <<passed, total>>
    after,      \* GetResultsDiff's after
    filter,     \* the DiffFilterParam
    paths,      \* the mapset.Set of path prefixes, or nil
    renames,    \* the map[string]string of renames, or nil
    diff,       \* the map GetResultsDiff builds and returns
    pending,    \* the keys the running range loop has not visited yet
    pc,         \* GetResultsDiff's position
    rpc,        \* GetRunsDiff's position
    shas,       \* <<before.FullRevisionHash, after.FullRevisionHash>>
    err,        \* the error GetRunsDiff returns: "nil", "before" or "after"
    fetched,    \* the sides FetchRunResultsJSON was called for
    failure     \* why getDiffRenames found no renames, or "none"

vars == <<before, after, filter, paths, renames, diff, pending, pc,
          rpc, shas, err, fetched, failure>>

(***************************************************************************)
(* Bounds of the model.                                                    *)
(***************************************************************************)
\* The most tests and subtests the two summaries hold together: the sum, over
\* the entries of before and of after, of 1 + total.
MaxSize == 4
\* The most entries of a rename map.
MaxRenames == 2

(***************************************************************************)
(* The values the inputs are drawn from.                                   *)
(***************************************************************************)
PathA == <<"/", "a">>
PathB == <<"/", "b">>
PathAB == <<"/", "a", "b">>
TestPaths == {PathA, PathB, PathAB}
Prefixes == {PathA}

\* [count-passed, total] with 0 <= passed <= total.
ResultPairs == {r \in (0..MaxSize) \X (0..MaxSize) : r[1] <= r[2]}

MapsOver(keys, values, most) ==
    UNION {[d -> values] : d \in {s \in SUBSET keys : Cardinality(s) <= most}}

\* The tests of summary m and their subtests.
RECURSIVE SizeOver(_, _)
SizeOver(m, keys) ==
    IF keys = {} THEN 0
    ELSE LET k == CHOOSE x \in keys : TRUE
         IN  1 + m[k][2] + SizeOver(m, keys \ {k})

Size(m) == SizeOver(m, DOMAIN m)

Summaries == {m \in MapsOver(TestPaths, ResultPairs, MaxSize) : Size(m) <= MaxSize}

NilRenames == [nil |-> TRUE, m |-> <<>>]
EmptyRenames == [nil |-> FALSE, m |-> <<>>]
RenameMaps ==
    {NilRenames} \cup
    {[nil |-> FALSE, m |-> f] :
        f \in {g \in MapsOver(TestPaths, TestPaths, MaxRenames) :
                  \A k \in DOMAIN g : g[k] # k}}

NilPaths == [nil |-> TRUE, elems |-> {}]
EmptyPaths == [nil |-> FALSE, elems |-> {}]
PathFilters == {NilPaths} \cup {[nil |-> FALSE, elems |-> s] : s \in SUBSET Prefixes}

DiffFilterParams == [Added : BOOLEAN, Deleted : BOOLEAN, Changed : BOOLEAN, Unchanged : BOOLEAN]

NoDiff == <<>>

\* A FullRevisionHash: the 40 characters of a commit's SHA-1, and the commit.
Revisions == {[len |-> 40, commit |-> "c1"], [len |-> 40, commit |-> "c2"]}
NoRevision == [len |-> 0, commit |-> ""]

(***************************************************************************)
(* strings.Index and anyPathMatches.                                       *)
(***************************************************************************)
Min(S) == CHOOSE x \in S : \A y \in S : x <= y

\* strings.Index(s, substr): the index of the first instance of substr in s,
\* or -1 if substr is not present in s.
Index(s, substr) ==
    LET at == {i \in 0..(Len(s) - Len(substr)) : SubSeq(s, i + 1, i + Len(substr)) = substr}
    IN  IF at = {} THEN -1 ELSE Min(at)

anyPathMatches(p, testPath) ==
    IF p.nil
    THEN TRUE
    ELSE \E path \in p.elems : Index(testPath, path) = 0

(***************************************************************************)
(* GetResultsDiff.                                                         *)
(***************************************************************************)
\* m[k] = v on a Go map.
Put(m, k, v) == [x \in (DOMAIN m) \cup {k} |-> IF x = k THEN v ELSE m[x]]

\* Renamed with the lookup's ok dropped: a present map gives its zero value, the
\* empty string, for a test it does not hold.
RenamedIgnoringOk(r, test) ==
    IF ~r.nil
    THEN IF test \in DOMAIN r.m THEN r.m[test] ELSE <<>>
    ELSE test

\* The key the first loop works with: the rename of test when there is one.
Renamed(r, test) ==
    IF ~r.nil /\ test \in DOMAIN r.m THEN r.m[test] ELSE test

\* ChangedTriple with the newly failing taken as the passes lost.
ChangedTriplePassesLost(resultsBefore, resultsAfter) ==
    LET d1 == resultsAfter[1] - resultsBefore[1]
        improved == IF d1 > 0 THEN d1 ELSE 0
        regressed == IF d1 < 0 THEN -d1 ELSE 0
    IN  <<improved, regressed, resultsAfter[2] - resultsBefore[2]>>

\* The triple of a test present in both summaries.
ChangedTriple(resultsBefore, resultsAfter) ==
    LET d1 == resultsAfter[1] - resultsBefore[1]
        improved == IF d1 > 0 THEN d1 ELSE 0
        failingBefore == resultsBefore[2] - resultsBefore[1]
        failingAfter == resultsAfter[2] - resultsAfter[1]
        d2 == failingAfter - failingBefore
        regressed == IF d2 > 0 THEN d2 ELSE 0
    IN  <<improved, regressed, resultsAfter[2] - resultsBefore[2]>>

\* BeforeBody with the scope checked on the old name, before the rename.
BeforeBodyScopeOnKey(d, key, b, a, f, p, r) ==
    LET resultsBefore == b[key]
        test == Renamed(r, key)
    IN  IF ~anyPathMatches(p, key) THEN d
        ELSE IF test \notin DOMAIN a
        THEN IF ~f.Deleted THEN d
             ELSE Put(d, test, <<0, 0, -resultsBefore[2]>>)
        ELSE LET resultsAfter == a[test]
                 delta == resultsBefore[1] - resultsAfter[1]
                 changed == delta # 0 \/ resultsBefore[2] # resultsAfter[2]
             IN  IF ~f.Changed /\ ~f.Unchanged THEN d
                 ELSE IF (~changed /\ ~f.Unchanged) \/ (changed /\ ~f.Changed) THEN d
                 ELSE Put(d, test, ChangedTriple(resultsBefore, resultsAfter))

\* One iteration of `for test, resultsBefore := range before`, on diff d.
BeforeBody(d, key, b, a, f, p, r) ==
    LET resultsBefore == b[key]
        test == Renamed(r, key)
    IN  IF ~anyPathMatches(p, test) THEN d
        ELSE IF test \notin DOMAIN a
        THEN IF ~f.Deleted THEN d
             ELSE Put(d, test, <<0, 0, -resultsBefore[2]>>)
        ELSE LET resultsAfter == a[test]
                 delta == resultsBefore[1] - resultsAfter[1]
                 changed == delta # 0 \/ resultsBefore[2] # resultsAfter[2]
             IN  IF ~f.Changed /\ ~f.Unchanged THEN d
                 ELSE IF (~changed /\ ~f.Unchanged) \/ (changed /\ ~f.Changed) THEN d
                 ELSE Put(d, test, ChangedTriple(resultsBefore, resultsAfter))

\* IsRenameTarget looking test up among the old names instead of the new ones.
IsRenameSource(r, test) ==
    ~r.nil /\ test \in DOMAIN r.m

\* Whether the second loop skips test as the new name of a renamed file.
IsRenameTarget(r, test) ==
    ~r.nil /\ \E was \in DOMAIN r.m : r.m[was] = test

\* AfterBody with the total counted as newly failing.
AfterBodyAllFailing(d, test, b, a, f, p, r) ==
    LET resultsAfter == a[test]
    IN  IF IsRenameTarget(r, test) THEN d
        ELSE IF ~anyPathMatches(p, test) THEN d
        ELSE IF test \notin DOMAIN b
        THEN Put(d, test, <<resultsAfter[1], resultsAfter[2], resultsAfter[2]>>)
        ELSE d

\* One iteration of `for test, resultsAfter := range after`, on diff d.
AfterBody(d, test, b, a, f, p, r) ==
    LET resultsAfter == a[test]
    IN  IF IsRenameTarget(r, test) THEN d
        ELSE IF ~anyPathMatches(p, test) THEN d
        ELSE IF test \notin DOMAIN b
        THEN Put(d, test, <<resultsAfter[1], resultsAfter[2] - resultsAfter[1], resultsAfter[2]>>)
        ELSE d

\* RunsFirstPass without filter.Deleted.
RunsFirstPassChangedOnly(f) == f.Changed

\* The guards of the two loops.
RunsFirstPass(f) == f.Deleted \/ f.Changed
RunsSecondPass(f) == f.Added

\* Where control goes when the first loop is over or skipped: into the second
\* loop when it runs and after has a key to visit, to the return otherwise.
SecondLoopOrReturn(f, a) ==
    IF RunsSecondPass(f) /\ DOMAIN a # {}
    THEN [pc |-> "after", pending |-> DOMAIN a]
    ELSE [pc |-> "done", pending |-> {}]

\* diff := make(map[string][]int), then into the first loop or past it.
Enter ==
    /\ pc = "enter"
    /\ diff' = NoDiff
    /\ LET to == IF RunsFirstPass(filter) /\ DOMAIN before # {}
                 THEN [pc |-> "before", pending |-> DOMAIN before]
                 ELSE SecondLoopOrReturn(filter, after)
       IN  pc' = to.pc /\ pending' = to.pending
    /\ UNCHANGED <<before, after, filter, paths, renames, rpc, shas, err, fetched, failure>>

\* One iteration of the first loop; after the last one, on to the second loop.
RangeBefore ==
    /\ pc = "before"
    /\ \E test \in pending :
          /\ diff' = BeforeBody(diff, test, before, after, filter, paths, renames)
          /\ LET to == IF pending \ {test} # {}
                       THEN [pc |-> "before", pending |-> pending \ {test}]
                       ELSE SecondLoopOrReturn(filter, after)
             IN  pc' = to.pc /\ pending' = to.pending
    /\ UNCHANGED <<before, after, filter, paths, renames, rpc, shas, err, fetched, failure>>

\* One iteration of the second loop; after the last one, return diff.
RangeAfter ==
    /\ pc = "after"
    /\ \E test \in pending :
          /\ diff' = AfterBody(diff, test, before, after, filter, paths, renames)
          /\ pending' = pending \ {test}
          /\ pc' = IF pending \ {test} # {} THEN "after" ELSE "done"
    /\ UNCHANGED <<before, after, filter, paths, renames, rpc, shas, err, fetched, failure>>

(***************************************************************************)
(* GetResultsDiff as a function of its arguments and of the two orders the *)
(* runtime ranges over before and after in.                                *)
(***************************************************************************)
\* The orders `range` may visit the keys of m in.
Orders(m) ==
    {o \in [1..Cardinality(DOMAIN m) -> DOMAIN m] :
        \A i, j \in DOMAIN o : o[i] = o[j] => i = j}

RECURSIVE FoldBefore(_, _, _, _, _, _, _)
FoldBefore(d, order, b, a, f, p, r) ==
    IF order = <<>> THEN d
    ELSE FoldBefore(BeforeBody(d, Head(order), b, a, f, p, r), Tail(order), b, a, f, p, r)

RECURSIVE FoldAfter(_, _, _, _, _, _, _)
FoldAfter(d, order, b, a, f, p, r) ==
    IF order = <<>> THEN d
    ELSE FoldAfter(AfterBody(d, Head(order), b, a, f, p, r), Tail(order), b, a, f, p, r)

GetResultsDiff(b, a, f, p, r, order1, order2) ==
    LET d1 == IF RunsFirstPass(f) THEN FoldBefore(NoDiff, order1, b, a, f, p, r) ELSE NoDiff
    IN  IF RunsSecondPass(f) THEN FoldAfter(d1, order2, b, a, f, p, r) ELSE d1

\* The arguments: two summaries of at most MaxSize tests and subtests together.
Inputs ==
    /\ before \in Summaries
    /\ after \in Summaries
    /\ Size(before) + Size(after) <= MaxSize
    /\ filter \in DiffFilterParams
    /\ paths \in PathFilters
    /\ renames \in RenameMaps

\* GetResultsDiff called on its own.
Init ==
    /\ Inputs
    /\ diff = NoDiff
    /\ pending = {}
    /\ pc = "enter"
    /\ rpc = "direct"
    /\ shas = <<NoRevision, NoRevision>>
    /\ err = "nil"
    /\ fetched = {}
    /\ failure = "none"

Next == Enter \/ RangeBefore \/ RangeAfter

Spec == Init /\ [][Next]_vars

(***************************************************************************)
(* getDiffRenames and GetRunsDiff.                                         *)
(***************************************************************************)
\* s[:n] panics when s has fewer than n characters.
SlicePanics(sha, n) == sha.len < n

FileNames == {<<"a">>, <<"b">>, <<"a", "b">>}
CommitFiles ==
    {[status |-> "renamed", filename |-> is, previous |-> was] :
        <<is, was>> \in {x \in FileNames \X FileNames : x[1] # x[2]}}
    \cup {[status |-> "modified", filename |-> is, previous |-> <<>>] : is \in FileNames}
Comparisons == UNION {[1..n -> CommitFiles] : n \in 0..MaxRenames}

\* The loop over comparison.Files.
RECURSIVE FileRenames(_, _)
FileRenames(m, files) ==
    IF files = <<>> THEN m
    ELSE LET file == Head(files)
         IN  FileRenames(IF file.status = "renamed"
                         THEN Put(m, <<"/">> \o file.previous, <<"/">> \o file.filename)
                         ELSE m,
                         Tail(files))

\* What CompareCommits hands back: a comparison or nil, and an error or nil.
CompareOutcomes ==
    {[comparison |-> <<>>, isNil |-> TRUE, err |-> e] : e \in BOOLEAN}
    \cup {[comparison |-> c, isNil |-> FALSE, err |-> FALSE] : c \in Comparisons}

\* The filters GetRunsDiff is called with: GetMasterDiffURL's and the zero value.
MasterDiffFilter == [Added |-> TRUE, Deleted |-> FALSE, Changed |-> TRUE, Unchanged |-> TRUE]
ZeroFilter == [Added |-> FALSE, Deleted |-> FALSE, Changed |-> FALSE, Unchanged |-> FALSE]

\* beforeJSON, err := FetchRunResultsJSON(d.ctx, before)
FetchBefore ==
    /\ rpc = "fetchBefore"
    /\ fetched' = fetched \cup {"before"}
    /\ \/ /\ before' \in Summaries
          /\ rpc' = "fetchAfter"
          /\ err' = err
       \/ /\ before' = before
          /\ rpc' = "returned"
          /\ err' = "before"
    /\ UNCHANGED <<after, filter, paths, renames, diff, pending, pc, shas, failure>>

\* afterJSON, err := FetchRunResultsJSON(d.ctx, after)
FetchAfter ==
    /\ rpc = "fetchAfter"
    /\ fetched' = fetched \cup {"after"}
    /\ \/ /\ after' \in Summaries
          /\ Size(before) + Size(after') <= MaxSize
          /\ rpc' = "feature"
          /\ err' = err
       \/ /\ after' = after
          /\ rpc' = "returned"
          /\ err' = "after"
    /\ UNCHANGED <<before, filter, paths, renames, diff, pending, pc, shas, failure>>

\* if IsFeatureEnabled(d.ctx, "diffRenames")
FeatureEnabled ==
    /\ rpc = "feature"
    /\ \E enabled \in BOOLEAN : rpc' = IF enabled THEN "revisions" ELSE "diff"
    /\ UNCHANGED <<before, after, filter, paths, renames, diff, pending, pc, shas, err, fetched, failure>>

\* getDiffRenames: if shaBefore == shaAfter { return nil }
SameRevision ==
    /\ rpc = "revisions"
    /\ IF shas[1] = shas[2]
       THEN rpc' = "diff" /\ failure' = "identical"
       ELSE rpc' = "secret" /\ failure' = failure
    /\ UNCHANGED <<before, after, filter, paths, renames, diff, pending, pc, shas, err, fetched>>

\* getDiffRenames: secret, err := GetSecret(ctx, "github-api-token")
GetSecret ==
    /\ rpc = "secret"
    /\ \E failed \in BOOLEAN :
          IF failed
          THEN rpc' = "diff" /\ failure' = "secret"
          ELSE rpc' = "compare" /\ failure' = failure
    /\ UNCHANGED <<before, after, filter, paths, renames, diff, pending, pc, shas, err, fetched>>

\* getDiffRenames: CompareCommits, the failure branch and the loop over the files.
CompareCommits ==
    /\ rpc = "compare"
    /\ \E got \in CompareOutcomes :
          IF got.err \/ got.isNil
          THEN /\ renames' = renames
               /\ failure' = IF got.err THEN "compare" ELSE "nocomparison"
               \* log.Errorf(..., shaBefore[:7], shaAfter[:7], err.Error())
               /\ rpc' = IF SlicePanics(shas[1], 7) \/ SlicePanics(shas[2], 7) \/ ~got.err
                         THEN "panicked"
                         ELSE "diff"
          ELSE /\ renames' = [nil |-> FALSE, m |-> FileRenames(<<>>, got.comparison)]
               /\ failure' = failure
               /\ rpc' = "diff"
    /\ UNCHANGED <<before, after, filter, paths, diff, pending, pc, shas, err, fetched>>

\* Differences: GetResultsDiff(beforeJSON, afterJSON, filter, paths, renames)
ReturnRunDiff ==
    /\ rpc = "diff"
    /\ \E order1 \in Orders(before), order2 \in Orders(after) :
          diff' = GetResultsDiff(before, after, filter, paths, renames, order1, order2)
    /\ rpc' = "returned"
    /\ UNCHANGED <<before, after, filter, paths, renames, pending, pc, shas, err, fetched, failure>>

\* GetRunsDiff called with two runs, a filter and a set of paths.
InitRuns ==
    /\ before = <<>>
    /\ after = <<>>
    /\ filter \in {MasterDiffFilter, ZeroFilter}
    /\ paths \in PathFilters
    /\ renames = NilRenames
    /\ diff = NoDiff
    /\ pending = {}
    /\ pc = "idle"
    /\ rpc = "fetchBefore"
    /\ shas \in Revisions \X Revisions
    /\ err = "nil"
    /\ fetched = {}
    /\ failure = "none"

NextRuns ==
    \/ FetchBefore
    \/ FetchAfter
    \/ FeatureEnabled
    \/ SameRevision
    \/ GetSecret
    \/ CompareCommits
    \/ ReturnRunDiff

SpecRuns == InitRuns /\ [][NextRuns]_vars

(***************************************************************************)
(* The properties.  A test is in scope when the PathFilter is unset or the *)
(* test starts with one of its prefixes; a rename entry touches its old    *)
(* name (its source) and its new name (its target).                        *)
(***************************************************************************)
StartsWith(s, prefix) ==
    Len(prefix) <= Len(s) /\ \A i \in 1..Len(prefix) : s[i] = prefix[i]

InScope(t) == paths.nil \/ \E prefix \in paths.elems : StartsWith(t, prefix)

IsSource(t) == ~renames.nil /\ t \in DOMAIN renames.m
IsTarget(t) == ~renames.nil /\ \E was \in DOMAIN renames.m : renames.m[was] = t

Max0(x) == IF x > 0 THEN x ELSE 0

\* [max(0, ap-bp), max(0, (at-ap)-(bt-bp)), at-bt]
ExpectedTriple(rb, ra) ==
    <<Max0(ra[1] - rb[1]), Max0((ra[2] - ra[1]) - (rb[2] - rb[1])), ra[2] - rb[2]>>

Returned == pc = "done"

\* C1: when GetResultsDiff has returned, every in-scope test that is in before
\* and in after with different counts and that no rename entry touches is a key
\* of the output exactly when filter.Changed is set, and its triple is
\* [max(0, ap-bp), max(0, (at-ap)-(bt-bp)), at-bt].
C1_ChangedReported ==
    Returned =>
        \A t \in (DOMAIN before) \cap (DOMAIN after) :
            (before[t] # after[t] /\ InScope(t) /\ ~IsSource(t) /\ ~IsTarget(t)) =>
                /\ (t \in DOMAIN diff) <=> filter.Changed
                /\ (t \in DOMAIN diff) => diff[t] = ExpectedTriple(before[t], after[t])

\* A changed test with newly failing subtests is reported, beside a rename map
\* with entries and a set of prefixes.
C1_Witness ==
    /\ Returned
    /\ ~renames.nil /\ DOMAIN renames.m # {}
    /\ ~paths.nil
    /\ \E t \in (DOMAIN before) \cap (DOMAIN after) :
          /\ before[t] # after[t] /\ InScope(t) /\ ~IsSource(t) /\ ~IsTarget(t)
          /\ t \in DOMAIN diff
          /\ diff[t][2] > 0

\* C2: when GetResultsDiff has returned, every in-scope test that is in before
\* and in after with the same counts and that no rename entry touches is a key
\* of the output exactly when filter.Unchanged is set, whatever the other three
\* flags, and its triple is [0, 0, 0].
C2_UnchangedReported ==
    Returned =>
        \A t \in (DOMAIN before) \cap (DOMAIN after) :
            (before[t] = after[t] /\ InScope(t) /\ ~IsSource(t) /\ ~IsTarget(t)) =>
                /\ (t \in DOMAIN diff) <=> filter.Unchanged
                /\ (t \in DOMAIN diff) => diff[t] = <<0, 0, 0>>

\* C3: when GetResultsDiff has returned, every in-scope test that is in after,
\* not in before and not the target of a rename entry is a key of the output
\* exactly when filter.Added is set, and its triple is [ap, at-ap, at].
C3_AddedReported ==
    Returned =>
        \A t \in (DOMAIN after) \ (DOMAIN before) :
            (InScope(t) /\ ~IsTarget(t)) =>
                /\ (t \in DOMAIN diff) <=> filter.Added
                /\ (t \in DOMAIN diff) =>
                      diff[t] = <<after[t][1], after[t][2] - after[t][1], after[t][2]>>

\* An added test with failing subtests is reported while the
\* first loop ran too and the rename map has entries.
C3_Witness ==
    /\ Returned
    /\ filter.Deleted /\ filter.Changed
    /\ ~renames.nil /\ DOMAIN renames.m # {}
    /\ \E t \in (DOMAIN after) \ (DOMAIN before) :
          /\ InScope(t) /\ ~IsTarget(t) /\ IsSource(t)
          /\ t \in DOMAIN diff
          /\ after[t][2] > after[t][1]

\* C4: when GetResultsDiff has returned, every in-scope test that is in before,
\* not in after and that no rename entry touches is a key of the output exactly
\* when filter.Deleted is set, and its triple is [0, 0, -bt].
C4_DeletedReported ==
    Returned =>
        \A t \in (DOMAIN before) \ (DOMAIN after) :
            (InScope(t) /\ ~IsSource(t) /\ ~IsTarget(t)) =>
                /\ (t \in DOMAIN diff) <=> filter.Deleted
                /\ (t \in DOMAIN diff) => diff[t] = <<0, 0, -before[t][2]>>

\* A deleted test with subtests is reported by a call with filter.Changed unset.
C4_Witness ==
    /\ Returned
    /\ ~filter.Changed
    /\ \E t \in (DOMAIN before) \ (DOMAIN after) :
          /\ InScope(t) /\ ~IsSource(t) /\ ~IsTarget(t)
          /\ t \in DOMAIN diff
          /\ before[t][2] > 0

\* renames maps a to b, a is in before, b is in after and not in before, and b
\* is in scope.
RenamedPair(a, b) ==
    /\ ~renames.nil
    /\ a \in DOMAIN renames.m /\ renames.m[a] = b
    /\ a \in DOMAIN before
    /\ b \in DOMAIN after
    /\ b \notin DOMAIN before
    /\ InScope(b)

\* The entry of key k in map m: <<m[k]>>, or <<>> when m has no key k.
Entry(m, k) == IF k \in DOMAIN m THEN <<m[k]>> ELSE <<>>

\* C5 as stated: for a renamed pair a, b the old name a is never a key of the
\* returned output, b's triple is the one of before[a] and after[b], and b is
\* not reported as added: it is no key when only filter.Added is set.
C5_RenamedPairReported ==
    Returned =>
        \A a, b \in TestPaths :
            RenamedPair(a, b) =>
                /\ a \notin DOMAIN diff
                /\ (b \in DOMAIN diff) => diff[b] = ExpectedTriple(before[a], after[b])
                /\ (~filter.Deleted /\ ~filter.Changed /\ ~filter.Unchanged) =>
                      b \notin DOMAIN diff

\* C5 as amended: for a renamed pair a, b no iteration of the second loop
\* writes key b, whatever the filter; and when GetResultsDiff returns, a is a
\* key of the output only as the new name of another test of before, b's
\* triple is the one of after[b] and of before[s] for a test s of before that
\* renames maps to b, and b is no key when only filter.Added is set.
C5_RenamedPairAmended ==
    [][/\ pc = "after" =>
            \A a, b \in TestPaths :
                RenamedPair(a, b) => Entry(diff', b) = Entry(diff, b)
       /\ pc' = "done" =>
            \A a, b \in TestPaths :
                RenamedPair(a, b) =>
                    /\ (a \in DOMAIN diff') =>
                          \E s \in DOMAIN before : IsSource(s) /\ renames.m[s] = a
                    /\ (b \in DOMAIN diff') =>
                          \E s \in DOMAIN before :
                              /\ IsSource(s) /\ renames.m[s] = b
                              /\ diff'[b] = ExpectedTriple(before[s], after[b])
                    /\ (~filter.Deleted /\ ~filter.Changed /\ ~filter.Unchanged) =>
                          b \notin DOMAIN diff'
      ]_vars

\* A renamed pair is reported under its new name alone by a call with every
\* flag set, the old name being no rename target.
C5_Witness ==
    /\ Returned
    /\ filter.Added /\ filter.Deleted /\ filter.Changed /\ filter.Unchanged
    /\ \E a, b \in TestPaths :
          /\ RenamedPair(a, b)
          /\ ~IsTarget(a)
          /\ a \notin DOMAIN diff
          /\ b \in DOMAIN diff
          /\ diff[b] = ExpectedTriple(before[a], after[b])
          /\ diff[b] # <<after[b][1], after[b][2] - after[b][1], after[b][2]>>

\* C6: the output GetResultsDiff returns is the one every order of ranging over
\* before and over after gives for the same arguments.
C6_Deterministic ==
    Returned =>
        \A order1 \in Orders(before), order2 \in Orders(after) :
            diff = GetResultsDiff(before, after, filter, paths, renames, order1, order2)

\* C7: with a non-empty set of prefixes every key of the output starts with
\* one of the prefixes.
C7_KeysInScope ==
    (~paths.nil /\ paths.elems # {}) =>
        \A k \in DOMAIN diff : \E prefix \in paths.elems : StartsWith(k, prefix)

\* A call with every flag set and a non-empty set of prefixes returns a
\* non-empty output although it was given tests out of scope, one of them
\* renamed.
C7_Witness ==
    /\ Returned
    /\ filter.Added /\ filter.Deleted /\ filter.Changed /\ filter.Unchanged
    /\ ~paths.nil /\ paths.elems # {}
    /\ diff # NoDiff
    /\ \E t \in DOMAIN after : ~InScope(t)
    /\ \E t \in DOMAIN before : ~InScope(t) /\ IsSource(t)

\* C8: a call with the empty set of prefixes returns an output that the same
\* call with the unset PathFilter can return.
C8_EmptyIsUnset ==
    (Returned /\ paths = EmptyPaths) =>
        \E order1 \in Orders(before), order2 \in Orders(after) :
            diff = GetResultsDiff(before, after, filter, NilPaths, renames, order1, order2)

\* C10: a call with an empty rename map returns what the same call with the
\* nil rename map returns, and the other way round, in whatever order the
\* maps are ranged over.
C10_EmptyRenamesIsNil ==
    (Returned /\ DOMAIN renames.m = {}) =>
        \A order1 \in Orders(before), order2 \in Orders(after) :
            diff = GetResultsDiff(before, after, filter, paths,
                                  IF renames.nil THEN EmptyRenames ELSE NilRenames,
                                  order1, order2)

\* A call with the empty, present rename map returns an output with a deleted
\* and an added test that have subtests.
C10_Witness ==
    /\ Returned
    /\ renames = EmptyRenames
    /\ \E t \in (DOMAIN before) \ (DOMAIN after) : t \in DOMAIN diff /\ before[t][2] > 0
    /\ \E t \in (DOMAIN after) \ (DOMAIN before) : t \in DOMAIN diff /\ after[t][2] > 0

\* C9: GetRunsDiff never ends but by returning; it returns an error exactly
\* when a fetch failed, the failure of the before fetch without the after
\* fetch having been made; and when rename resolution failed it returns no
\* error and Differences computed with the renames absent.
C9_OnlyFetchFailuresAreFatal ==
    /\ rpc # "panicked"
    /\ rpc = "returned" =>
          /\ err = "before" => fetched = {"before"}
          /\ err = "after" => fetched = {"before", "after"}
          /\ failure # "none" =>
                /\ err = "nil"
                /\ renames.nil
                /\ \E order1 \in Orders(before), order2 \in Orders(after) :
                      diff = GetResultsDiff(before, after, filter, paths, NilRenames,
                                            order1, order2)

====
